---- MODULE Spec2Model ----
(***************************************************************************)
(* Model of Zotero.Session (src/src/commands/session.js, lines 1-870):     *)
(* the command loop (execCommand / respond / callFunction), the proxy      *)
(* tracking (_track / _untrackAll), the field model (getFields and the     *)
(* operations that read or change fields) and the batched binary search    *)
(* of _sortNotesIntoFields.                                                *)
(***************************************************************************)
EXTENDS Integers, Sequences, FiniteSets, TLC

VARIABLES
    srt,        \* one call of _sortNotesIntoFields: its arguments and locals
    doc,        \* the document: anchors of the main body in document order
    cursor,     \* the selection: in a gap between anchors, or in a field
    sess,       \* the fields of the Zotero.Session object
    heap,       \* the Field objects made by _wordFieldToField, by address
    loop,       \* the command loop: position, counters of its side effects
    relay,      \* what the connector relay has been sent / answers next
    gw,         \* the gateway: proxies handed out, tracked and released
    hist,       \* history of the last getFields calls (observer only)
    rec,        \* one orphan reconciliation on host-reported comparisons
    clicks,     \* the sessions made by button clicks, one command loop each
    dlg         \* one displayAlert call and the dialog it shows

vars == <<srt, doc, cursor, sess, heap, loop, relay, gw, hist, rec, clicks, dlg>>

(***************************************************************************)
(* Bounds of the model.                                                    *)
(***************************************************************************)
MaxN == 3
MaxM == 2

(***************************************************************************)
(* Helpers on sequences and numbers.                                       *)
(***************************************************************************)
\* Math.floor(d / 2.) : floor, also for a negative d
Floor2(d) == d \div 2

Range(s) == {s[i] : i \in 1..Len(s)}

Reverse(s) == [i \in 1..Len(s) |-> s[Len(s) + 1 - i]]

\* Array.prototype.splice(start, 0, e): a negative start counts from the end,
\* a start beyond the end appends
Splice(s, start, e) ==
    LET at == IF start < 0 THEN (IF Len(s) + start < 0 THEN 0 ELSE Len(s) + start)
              ELSE IF start > Len(s) THEN Len(s) ELSE start
    IN  SubSeq(s, 1, at) \o <<e>> \o SubSeq(s, at + 1, Len(s))

RECURSIVE CeilLog2(_)
CeilLog2(n) == IF n <= 1 THEN 0 ELSE 1 + CeilLog2((n + 1) \div 2)

(***************************************************************************)
(* Range.compareLocationWith, as far as the session reads it: the          *)
(* position of range a relative to range b in the main body.               *)
(***************************************************************************)
compareLocationWith(a, b) ==
    IF a.pos > b.pos THEN "After"
    ELSE IF a.pos < b.pos THEN "Before"
    ELSE "Equal"

(***************************************************************************)
(* _sortNotesIntoFields (session.js 773-816).                              *)
(* lower, upper and compIdx are the 0-based numbers of the code; fields    *)
(* and notes are 1-based sequences, so fields[compIdx] is fields[compIdx+1]*)
(***************************************************************************)
NoCompare == "false"    \* compareValues[i] = { value: false }

\* lines 780-788: narrow the interval with the previous comparison
Narrow(ns, value) ==
    LET diff == ns.upper - ns.lower IN
    IF value = NoCompare THEN ns
    ELSE IF value = "After"
         THEN [ns EXCEPT !.lower = ns.lower + Floor2(diff) + (IF diff = 1 THEN 1 ELSE 0)]
         ELSE [ns EXCEPT !.upper = ns.lower + Floor2(diff) - (IF diff = 1 THEN 1 ELSE 0)]

\* line 791
CompIdx(ns) == ns.lower + Floor2(ns.upper - ns.lower)

\* lines 789-803 for one note with the narrowed interval ns: the comparison
\* queued (read after the flush), and whether fields[compIdx] was undefined,
\* in which case reading field.code raises a TypeError
Compare(fields, note, ns, cv0) ==
    LET compIdx == CompIdx(ns)
    IN  IF ns.lower = ns.upper
        THEN [ns |-> ns, cv |-> cv0, queued |-> -1, threw |-> FALSE]
        ELSE IF compIdx >= Len(fields)
        THEN [ns |-> ns, cv |-> "Before", queued |-> -1, threw |-> FALSE]
        ELSE IF compIdx < 0
        THEN [ns |-> ns, cv |-> cv0, queued |-> -1, threw |-> TRUE]
        ELSE [ns |-> ns, cv |-> compareLocationWith(note, fields[compIdx + 1]),
              queued |-> compIdx, threw |-> FALSE]

\* lines 780-803 for one note
NoteStep(fields, note, ns0, cv0) == Compare(fields, note, Narrow(ns0, cv0), cv0)

\* lines 805-807 with the flush before the test of areSorted (mutant)
AfterRoundFlushFirst(st, areSorted) ==
    [st EXCEPT !.flushes = st.flushes + 1,
               !.pc = IF areSorted THEN "sorted" ELSE "loop"]

\* lines 805-807: leave the loop when every interval has collapsed, else flush
AfterRound(st, areSorted) ==
    IF areSorted THEN [st EXCEPT !.pc = "sorted"]
    ELSE [st EXCEPT !.flushes = st.flushes + 1]

\* lines 779-807 with step[i] the outcome of the for loop's body for note i
RoundEnd(st, step) ==
    LET M     == Len(st.notes)
        threw == \E i \in 1..M : step[i].threw
        st1   == [st EXCEPT
                    !.noteSort = [i \in 1..M |-> step[i].ns],
                    !.compareValues = [i \in 1..M |-> step[i].cv],
                    !.collected = st.collected \cup
                        {<<i, step[i].queued, step[i].cv>> :
                            i \in {j \in 1..M : step[j].queued >= 0}}]
    IN  IF threw THEN [st1 EXCEPT !.pc = "threw"]
        ELSE AfterRound(st1, \A i \in 1..M : step[i].ns.lower = step[i].ns.upper)

\* lines 779-807: one pass of while (true)
SortRound(st) ==
    RoundEnd(st, [i \in 1..Len(st.notes) |->
                     NoteStep(st.fields, st.notes[i], st.noteSort[i], st.compareValues[i])])

RECURSIVE SpliceAll(_, _, _, _)
SpliceAll(fields, notes, noteSort, idx) ==
    IF idx > Len(notes) THEN fields
    ELSE SpliceAll(Splice(fields, noteSort[idx].lower, notes[idx]), notes, noteSort, idx + 1)

\* lines 809-815 without the two reverse() calls (mutant)
MergeForward(st) ==
    [st EXCEPT !.pc = "done",
               !.out = SpliceAll(st.fields, st.notes, st.noteSort, 1)]

\* lines 809-815 without notes.reverse() of line 810 (mutant)
MergeNotesForward(st) ==
    [st EXCEPT !.pc = "done",
               !.out = SpliceAll(st.fields, st.notes, Reverse(st.noteSort), 1)]

\* lines 809-815: insert in reverse
Merge(st) ==
    [st EXCEPT !.pc = "done",
               !.out = SpliceAll(st.fields, Reverse(st.notes), Reverse(st.noteSort), 1)]

\* lines 774-777 with line 774 testing notes.length (mutant)
SortBeginNoNotes(fields, notes) ==
    IF Len(notes) = 0
    THEN [fields |-> fields, notes |-> notes, noteSort |-> <<>>, compareValues |-> <<>>,
          flushes |-> 0, collected |-> {}, pc |-> "done", out |-> notes]
    ELSE [fields |-> fields, notes |-> notes,
          noteSort |-> [i \in 1..Len(notes) |-> [lower |-> 0, upper |-> Len(fields)]],
          compareValues |-> [i \in 1..Len(notes) |-> NoCompare],
          flushes |-> 0, collected |-> {}, pc |-> "loop", out |-> <<>>]

\* lines 774-777 with line 774 returning fields (mutant)
SortBeginReturnFields(fields, notes) ==
    IF Len(fields) = 0
    THEN [fields |-> fields, notes |-> notes, noteSort |-> <<>>, compareValues |-> <<>>,
          flushes |-> 0, collected |-> {}, pc |-> "done", out |-> fields]
    ELSE [fields |-> fields, notes |-> notes,
          noteSort |-> [i \in 1..Len(notes) |-> [lower |-> 0, upper |-> Len(fields)]],
          compareValues |-> [i \in 1..Len(notes) |-> NoCompare],
          flushes |-> 0, collected |-> {}, pc |-> "loop", out |-> <<>>]

\* lines 774-777
SortBegin(fields, notes) ==
    IF Len(fields) = 0
    THEN [fields |-> fields, notes |-> notes, noteSort |-> <<>>, compareValues |-> <<>>,
          flushes |-> 0, collected |-> {}, pc |-> "done", out |-> notes]
    ELSE [fields |-> fields, notes |-> notes,
          noteSort |-> [i \in 1..Len(notes) |-> [lower |-> 0, upper |-> Len(fields)]],
          compareValues |-> [i \in 1..Len(notes) |-> NoCompare],
          flushes |-> 0, collected |-> {}, pc |-> "loop", out |-> <<>>]

RECURSIVE SortLoop(_)
SortLoop(st) ==
    IF st.pc = "loop" THEN SortLoop(SortRound(st))
    ELSE IF st.pc = "sorted" THEN Merge(st)
    ELSE st

\* the whole call: pc = "done" with the result in out, or pc = "threw"
_sortNotesIntoFields(fields, notes) == SortLoop(SortBegin(fields, notes))

(***************************************************************************)
(* The document.  doc.anchors lists, in document order, the anchors of the *)
(* main body: an inline field (kind 0, one field) or the reference of a    *)
(* footnote (kind 1) or endnote (kind 2) with the fields of the note body. *)
(* A field is [fid, zot]: its identity in the host and whether its trimmed *)
(* code starts with FIELD_PREFIX.  doc.fresh is the last number used as a  *)
(* fid or nid.                                                             *)
(***************************************************************************)
MaxDoc == 1

Shapes == {"inline", "other", "footnote", "endnote", "footnote2"}

ShapeAnchor(shape, i) ==
    CASE shape = "inline"    -> [kind |-> 0, nid |-> 0, flds |-> <<[fid |-> 2 * i - 1, zot |-> TRUE]>>]
      [] shape = "other"     -> [kind |-> 0, nid |-> 0, flds |-> <<[fid |-> 2 * i - 1, zot |-> FALSE]>>]
      [] shape = "footnote"  -> [kind |-> 1, nid |-> 2 * i, flds |-> <<[fid |-> 2 * i - 1, zot |-> TRUE]>>]
      [] shape = "endnote"   -> [kind |-> 2, nid |-> 2 * i, flds |-> <<[fid |-> 2 * i - 1, zot |-> TRUE]>>]
      [] shape = "footnote2" -> [kind |-> 1, nid |-> 2 * i,
                                 flds |-> <<[fid |-> 2 * i - 1, zot |-> TRUE], [fid |-> 2 * i, zot |-> TRUE]>>]
      [] shape = "footnoteOther" -> [kind |-> 1, nid |-> 2 * i,
                                     flds |-> <<[fid |-> 2 * i - 1, zot |-> FALSE]>>]
      [] shape = "endnoteMixed"  -> [kind |-> 2, nid |-> 2 * i,
                                     flds |-> <<[fid |-> 2 * i - 1, zot |-> FALSE], [fid |-> 2 * i, zot |-> TRUE]>>]

InitDocs ==
    UNION {{[anchors |-> [i \in 1..n |-> ShapeAnchor(sh[i], i)], fresh |-> 2 * n] :
               sh \in [1..n -> Shapes]} : n \in 0..MaxDoc}

\* the places <<anchor index, field index>> of the fields of the document
Places(d) ==
    UNION {{<<i, k>> : k \in 1..Len(d.anchors[i].flds)} : i \in 1..Len(d.anchors)}

FieldAt(d, pl) == d.anchors[pl[1]].flds[pl[2]]

InDoc(d, fid) == \E pl \in Places(d) : FieldAt(d, pl).fid = fid

PlaceOf(d, fid) == CHOOSE pl \in Places(d) : FieldAt(d, pl).fid = fid

\* the fields of the document that carry the prefix
ZoteroFids(d) == {FieldAt(d, pl).fid : pl \in {q \in Places(d) : FieldAt(d, q).zot}}

RemoveAt(s, i) == SubSeq(s, 1, i - 1) \o SubSeq(s, i + 1, Len(s))

\* the document without the anchor i (an inline field deleted, a note deleted)
RemoveAnchor(d, i) == [d EXCEPT !.anchors = RemoveAt(d.anchors, i)]

\* the document without the field at pl; a note stays, also when it is left empty
RemoveNoteField(d, pl) ==
    [d EXCEPT !.anchors[pl[1]].flds = RemoveAt(d.anchors[pl[1]].flds, pl[2])]

\* Field.delete() / replacing the result range of a field by nothing
RemoveField(d, fid) ==
    LET pl == PlaceOf(d, fid) IN
    IF d.anchors[pl[1]].kind = 0 THEN RemoveAnchor(d, pl[1]) ELSE RemoveNoteField(d, pl)

(***************************************************************************)
(* The session object.  An operation works on S = [sess, heap, gw]:        *)
(*   sess  trackedObjects, oldTrackedObjects, fields (hasFields tells a    *)
(*         list from null), fieldsById (pairs <<key, address>>),           *)
(*         orphanFields, insertTextIntoNote                                *)
(*   heap  the Field objects; the address of an object is the id that      *)
(*         randomString gave it, heap[a].id is the id it carries now       *)
(*   gw    np: the last proxy handed out; tracked / released: the proxies  *)
(*         registered by _track / removed from context.trackedObjects      *)
(***************************************************************************)
HasKey(f, k) == \E p \in f : p[1] = k
Get(f, k) == (CHOOSE p \in f : p[1] = k)[2]
Del(f, k) == {p \in f : p[1] # k}
Put(f, k, v) == Del(f, k) \cup {<<k, v>>}

NewSession ==
    [trackedObjects |-> <<>>, oldTrackedObjects |-> <<>>, hasFields |-> FALSE,
     fields |-> <<>>, fieldsById |-> {}, orphanFields |-> <<>>, insertTextIntoNote |-> 0]

NewGateway == [np |-> 0, tracked |-> {}, released |-> {}]

NewProxy(S) == S.gw.np + 1

\* lines 165-168
_track(S, wordObject) ==
    [S EXCEPT !.sess.trackedObjects = Append(@, wordObject),
              !.gw.np = IF wordObject > @ THEN wordObject ELSE @,
              !.gw.tracked = @ \cup {wordObject}]

\* _track of an object the host hands out now (a collection, a range)
TrackNew(S) == _track(S, NewProxy(S))

\* context.trackedObjects.remove(list)
Release(S, list) == [S EXCEPT !.gw.released = @ \cup Range(list)]

\* lines 818-833; randomString (857-870) gives an id not in use
_wordFieldToField(S, fid, noteType, wordNote, px, orphan) ==
    LET id == Len(S.heap) + 1 IN
    [S EXCEPT !.heap = Append(@, [id |-> id, fid |-> fid, noteType |-> noteType,
                                  wordNote |-> wordNote, px |-> px]),
              !.sess.orphanFields = IF orphan THEN Append(@, id) ELSE @,
              !.sess.fieldsById = Put(@, id, id)]

\* the Field made last
LastField(S) == Len(S.heap)

\* lines 339-340 without this._track(field) (mutant)
AddFieldUntracked(S, fld, noteType) ==
    LET S1 == _wordFieldToField(S, fld.fid, noteType, 0, NewProxy(S), FALSE)
    IN  [S1 EXCEPT !.sess.fields = Append(@, LastField(S1))]

\* lines 339-340: this._track(field), then the Field made of it is
\* concatenated to this.fields (line 354)
AddField(S, fld, noteType) ==
    LET px == NewProxy(S)
        S1 == _wordFieldToField(_track(S, px), fld.fid, noteType, 0, px, FALSE)
    IN  [S1 EXCEPT !.sess.fields = Append(@, LastField(S1))]

\* this._track(field); this._track(field.result); then the orphan Field made
\* of the field (lines 489-496, 422-430, 447-455)
AddOrphan(S, fid, noteType, wordNote) ==
    LET px == NewProxy(S)
    IN  _wordFieldToField(_track(_track(S, px), px + 1), fid, noteType, wordNote, px, TRUE)

(***************************************************************************)
(* getFields (269-369).                                                    *)
(***************************************************************************)
\* lines 284-296 for the orphans from orphanIdx on; comparisons[o][f] is the
\* value read for orphan o and cached field f
RECURSIVE ReconcileFrom(_, _, _)
ReconcileFrom(S, comparisons, orphanIdx) ==
    IF orphanIdx > Len(S.sess.orphanFields) THEN [threw |-> FALSE, S |-> S]
    ELSE LET comparison == comparisons[orphanIdx]
             equal == {f \in 1..Len(comparison) : comparison[f] = "Equal"}
         IN  IF equal = {} THEN [threw |-> TRUE, S |-> S]
             ELSE LET fieldIdx    == CHOOSE f \in equal : \A g \in equal : f <= g
                      orphanField == S.sess.orphanFields[orphanIdx]
                      field       == S.sess.fields[fieldIdx]
                      id          == S.heap[orphanField].id
                  IN  ReconcileFrom(
                          [S EXCEPT !.heap[field].id = id,
                                    !.sess.fieldsById = Put(Del(@, id), id, field)],
                          comparisons, orphanIdx + 1)

\* lines 284-297 with the error of line 287 swallowed (mutant)
ReconcileNoThrow(S, comparisons) ==
    LET r == ReconcileFrom(S, comparisons, 1) IN
    [threw |-> FALSE, S |-> [r.S EXCEPT !.sess.orphanFields = <<>>]]

\* lines 284-297
Reconcile(S, comparisons) ==
    LET r == ReconcileFrom(S, comparisons, 1) IN
    IF r.threw THEN r ELSE [threw |-> FALSE, S |-> [r.S EXCEPT !.sess.orphanFields = <<>>]]

\* field.wordField.result.compareLocationWith(orphanField.wordField.result)
\* for two fields of the document
CompareFields(d, fidA, fidB) ==
    LET a == PlaceOf(d, fidA)
        b == PlaceOf(d, fidB)
    IN  compareLocationWith([pos |-> 2 * a[1] + a[2]], [pos |-> 2 * b[1] + b[2]])

\* lines 277-282 with every cached field compared with the first orphan (mutant)
OrphanComparisonsFirst(S, d) ==
    [o \in 1..Len(S.sess.orphanFields) |->
        [f \in 1..Len(S.sess.fields) |->
            CompareFields(d, S.heap[S.sess.fields[f]].fid, S.heap[S.sess.orphanFields[1]].fid)]]

\* lines 277-282 after the flush of line 283
OrphanComparisons(S, d) ==
    [o \in 1..Len(S.sess.orphanFields) |->
        [f \in 1..Len(S.sess.fields) |->
            CompareFields(d, S.heap[S.sess.fields[f]].fid, S.heap[S.sess.orphanFields[o]].fid)]]

\* a range of a field that the document no longer holds: the flush fails
Stale(S, d, list) == \E i \in 1..Len(list) : ~InDoc(d, S.heap[list[i]].fid)

\* lines 301-304, reached when the reconciliation r has not raised
RemoveOld(r) ==
    IF r.threw THEN r
    ELSE [threw |-> FALSE, S |-> Release(r.S, r.S.sess.oldTrackedObjects)]

\* lines 270-305: the path with a cached list
Cached(S, d) ==
    RemoveOld(IF Len(S.sess.orphanFields) = 0 THEN [threw |-> FALSE, S |-> S]
              ELSE IF /\ Len(S.sess.fields) > 0
                      /\ (Stale(S, d, S.sess.fields) \/ Stale(S, d, S.sess.orphanFields))
              THEN [threw |-> TRUE, S |-> S]
              ELSE Reconcile(S, OrphanComparisons(S, d)))

\* lines 309, 332: the inline fields with the prefix; 312-330: the notes of
\* one type that hold a field with the prefix.  An entry is the anchor's
\* position in the main body.
SortEntries(d, kind) ==
    LET keep(i) == /\ d.anchors[i].kind = kind
                   /\ \E k \in 1..Len(d.anchors[i].flds) : d.anchors[i].flds[k].zot
        F[i \in 0..Len(d.anchors)] ==
            IF i = 0 THEN <<>>
            ELSE IF keep(i) THEN Append(F[i - 1], [pos |-> i, kind |-> kind]) ELSE F[i - 1]
    IN  F[Len(d.anchors)]

\* lines 345-348 with a Field made of every field of the note, whatever its
\* code (mutant)
RECURSIVE NoteFieldsAll(_, _, _, _)
NoteFieldsAll(S, anchor, k, bodyFields) ==
    IF k > Len(anchor.flds) THEN S
    ELSE NoteFieldsAll(AddField(_track(S, bodyFields), anchor.flds[k], anchor.kind),
                       anchor, k + 1, bodyFields)

\* lines 345-348: the fields of one note
RECURSIVE NoteFields(_, _, _, _)
NoteFields(S, anchor, k, bodyFields) ==
    IF k > Len(anchor.flds) THEN S
    ELSE NoteFields(IF anchor.flds[k].zot
                    THEN AddField(_track(S, bodyFields), anchor.flds[k], anchor.kind)
                    ELSE _track(S, bodyFields),
                    anchor, k + 1, bodyFields)

\* lines 336-350: getZoteroFieldsFromWordFields for one entry of the sorted list
FieldsOf(S, anchor) ==
    IF anchor.kind = 0
    THEN IF anchor.flds[1].zot THEN AddField(S, anchor.flds[1], 0) ELSE S
    ELSE NoteFields(S, anchor, 1, NewProxy(S))

\* lines 352-355: getZoteroFieldsFromWordFields over the sorted entries
RECURSIVE Build(_, _, _, _)
Build(S, d, entries, i) ==
    IF i > Len(entries) THEN S
    ELSE Build(FieldsOf(S, d.anchors[entries[i].pos]), d, entries, i + 1)

\* lines 336-368 with the sorted list r: the Fields, then the cached path
RebuildFrom(S, d, r) ==
    IF r.pc = "threw" THEN [threw |-> TRUE, S |-> S]
    ELSE Cached(Build([S EXCEPT !.sess.fields = <<>>, !.sess.hasFields = TRUE],
                      d, r.out, 1), d)

\* line 334 with r the outcome of line 333
SortEndnotes(d, r) ==
    IF r.pc = "threw" THEN r ELSE _sortNotesIntoFields(r.out, SortEntries(d, 2))

\* lines 306-368: the rebuild, then the cached path (line 368)
Rebuild(S, d) ==
    RebuildFrom(TrackNew(TrackNew(TrackNew(
                    [S EXCEPT !.sess.oldTrackedObjects = S.sess.trackedObjects,
                              !.sess.trackedObjects = <<>>]))),
                d,
                SortEndnotes(d, _sortNotesIntoFields(SortEntries(d, 0), SortEntries(d, 1))))

\* line 270 with the cache never used (mutant)
HasCacheNever(S) == FALSE

\* line 270
HasCache(S) == S.sess.hasFields

getFields(S, d) == IF HasCache(S) THEN Cached(S, d) ELSE Rebuild(S, d)

(***************************************************************************)
(* The operations that callFunction dispatches.  Each gives                *)
(* [threw, S, d, c, ret]: whether it raised, the session, the document and *)
(* the selection it leaves, and the ids it returns to the caller.          *)
(***************************************************************************)
AnchorKey(a) == IF a.kind = 0 THEN <<0, a.flds[1].fid>> ELSE <<a.kind, a.nid>>

\* the selection of c, given in document d, in the edited document e
MoveCursor(c, d, e) ==
    LET keys == {AnchorKey(e.anchors[i]) : i \in 1..Len(e.anchors)}
        kept(g) == Cardinality({i \in 1..g : AnchorKey(d.anchors[i]) \in keys})
    IN  IF c.mode = "gap" THEN [c EXCEPT !.g = kept(c.g)]
        ELSE IF c.mode = "note"
        THEN IF AnchorKey(d.anchors[c.g]) \in keys THEN [c EXCEPT !.g = kept(c.g)]
             ELSE [mode |-> "gap", fid |-> 0, g |-> kept(c.g)]
        ELSE IF InDoc(e, c.fid) THEN c
        ELSE [mode |-> "gap", fid |-> 0, g |-> kept(PlaceOf(d, c.fid)[1])]

Threw(S, d, c) == [threw |-> TRUE, S |-> S, d |-> d, c |-> c, ret |-> {}]
Returned(S, d, c, ret) == [threw |-> FALSE, S |-> S, d |-> d, c |-> c, ret |-> ret]

Ids(S, list) == [i \in 1..Len(list) |-> S.heap[list[i]].id]

\* the Field made last, returned to the relay
ReturnedLast(S, d, c) == Returned(S, d, c, {LastField(S)})

\* what the relay gets of the outcome r of getFields
FieldsResult(r, d, c) ==
    IF r.threw THEN Threw(r.S, d, c)
    ELSE Returned(r.S, d, c, Range(Ids(r.S, r.S.sess.fields)))

\* lines 269-369, called by the relay
Op_getFields(S, d, c) == FieldsResult(getFields(S, d), d, c)

\* lines 411-430 and 439-455, after this._track(fields) of line 412: the
\* selection holds the field, or the caret stands in it (446: startFields)
FieldAtCursor(S, d, c) ==
    LET anchor == d.anchors[PlaceOf(d, c.fid)[1]]
    IN  ReturnedLast(AddOrphan(IF c.mode = "caret" THEN TrackNew(S) ELSE S,
                               c.fid, anchor.kind, anchor.nid),
                     d, c)

\* lines 405-458
Op_cursorInField(S, d, c) ==
    IF c.mode \in {"gap", "note"} \/ ~FieldAt(d, PlaceOf(d, c.fid)).zot
    THEN Returned(TrackNew(S), d, c, {})
    ELSE FieldAtCursor(TrackNew(S), d, c)

\* lines 461-497, with the selection collapsed in the main body
Op_insertField(S, d, c, noteType) ==
    LET fid    == d.fresh + 1
        nid    == IF noteType = 0 THEN 0 ELSE d.fresh + 2
        anchor == [kind |-> noteType, nid |-> nid, flds |-> <<[fid |-> fid, zot |-> TRUE]>>]
    IN  ReturnedLast(AddOrphan(S, fid, noteType, nid),
                     [anchors |-> Splice(d.anchors, c.g, anchor), fresh |-> d.fresh + 2],
                     [c EXCEPT !.g = c.g + 1])

\* selection.parentBody.type as a note type: 0 for "MainDoc" (lines 502, 507)
BodyKind(d, c) ==
    IF c.mode = "gap" THEN 0
    ELSE IF c.mode = "note" THEN d.anchors[c.g].kind
    ELSE d.anchors[PlaceOf(d, c.fid)[1]].kind

\* the anchor of the main body that the selection stands at or after
AnchorAt(d, c) == IF c.mode \in {"gap", "note"} THEN c.g ELSE PlaceOf(d, c.fid)[1]

\* line 518: insertRange.parentBody.getRange().select("End")
SelectEnd(d, c) ==
    IF BodyKind(d, c) = 0 THEN [mode |-> "gap", fid |-> 0, g |-> Len(d.anchors)]
    ELSE [mode |-> "note", fid |-> 0, g |-> AnchorAt(d, c)]

\* lines 508-518: a note of the type noteType is inserted at the selection,
\* the text goes to its end and the selection with it
InsertIntoNote(S, d, c, noteType) ==
    LET note == [kind |-> noteType, nid |-> d.fresh + 1, flds |-> <<>>]
    IN  Returned(S, [anchors |-> Splice(d.anchors, AnchorAt(d, c), note),
                     fresh |-> d.fresh + 1],
                 [mode |-> "note", fid |-> 0, g |-> AnchorAt(d, c) + 1], {})

\* lines 499-519 with the test of line 507 on the body type alone (mutant)
Op_insertTextAnyFlag(S, d, c) ==
    IF BodyKind(d, c) = 0
    THEN InsertIntoNote(S, d, c, IF S.sess.insertTextIntoNote = 1 THEN 1 ELSE 2)
    ELSE Returned(S, d, SelectEnd(d, c), {})

\* lines 499-519; the text itself is no part of the document's anchors
Op_insertText(S, d, c) ==
    IF S.sess.insertTextIntoNote # 0 /\ BodyKind(d, c) = 0
    THEN InsertIntoNote(S, d, c, IF S.sess.insertTextIntoNote = 1 THEN 1 ELSE 2)
    ELSE Returned(S, d, SelectEnd(d, c), {})

\* const field = this.fieldsById[fieldID], then a use of field.wordField:
\* a TypeError for an id that is no key, a failed flush for a field that
\* the document no longer holds
Usable(S, d, fieldID) ==
    HasKey(S.sess.fieldsById, fieldID) /\ InDoc(d, S.heap[Get(S.sess.fieldsById, fieldID)].fid)

\* lines 689-713
Op_setText(S, d, c, fieldID) ==
    IF Usable(S, d, fieldID) THEN Returned(S, d, c, {}) ELSE Threw(S, d, c)

\* lines 715-720
Op_setCode(S, d, c, fieldID) ==
    IF Usable(S, d, fieldID) THEN Returned(S, d, c, {}) ELSE Threw(S, d, c)

\* lines 760-764
Op_select(S, d, c, fieldID) ==
    IF Usable(S, d, fieldID)
    THEN Returned(S, d, [mode |-> "sel", fid |-> S.heap[Get(S.sess.fieldsById, fieldID)].fid,
                         g |-> 0], {})
    ELSE Threw(S, d, c)

\* Array.prototype.indexOf, 0-based, -1 when absent
IndexOf(list, x) ==
    IF \E i \in 1..Len(list) : list[i] = x
    THEN (CHOOSE i \in 1..Len(list) : list[i] = x /\ \A j \in 1..(i - 1) : list[j] # x) - 1
    ELSE -1

\* Array.prototype.splice(start, 1): a negative start counts from the end
SpliceOut(list, start) ==
    LET at == IF start < 0 THEN (IF Len(list) + start < 0 THEN 0 ELSE Len(list) + start)
              ELSE start
    IN  IF at >= Len(list) THEN list ELSE RemoveAt(list, at + 1)

\* lines 724-751 for the Field field, whose field stands at pl
DeleteAt(S, d, c, field, pl) ==
    LET anchor == d.anchors[pl[1]]
        inMain == anchor.kind = 0
        \* 732: field.wordNote.body, a TypeError without a wordNote
        noNote == ~inMain /\ S.heap[field].wordNote = 0
        \* 739: the field is all the note holds
        alone  == ~inMain /\ Len(anchor.flds) = 1
        e      == IF inMain \/ alone THEN RemoveAnchor(d, pl[1]) ELSE RemoveNoteField(d, pl)
    IN  IF noNote THEN Threw(S, d, c)
        ELSE Returned([S EXCEPT
                          !.sess.insertTextIntoNote = IF alone THEN anchor.kind ELSE @,
                          !.sess.fields = IF S.sess.hasFields
                                          THEN SpliceOut(@, IndexOf(@, field)) ELSE @,
                          !.sess.fieldsById = Del(@, S.heap[field].id)],
                      e, MoveCursor(c, d, e), {})

\* line 723 and on
DeleteField(S, d, c, field) == DeleteAt(S, d, c, field, PlaceOf(d, S.heap[field].fid))

\* lines 722-752
Op_delete(S, d, c, fieldID) ==
    IF ~Usable(S, d, fieldID) THEN Threw(S, d, c)
    ELSE DeleteField(S, d, c, Get(S.sess.fieldsById, fieldID))

RECURSIVE RemoveFields(_, _, _, _)
RemoveFields(S, d, list, i) ==
    IF i > Len(list) THEN d
    ELSE RemoveFields(S, RemoveField(d, S.heap[list[i]].fid), list, i + 1)

\* lines 671-676 for the reversed list S.sess.fields
ExportFields(S, d, c) ==
    IF Stale(S, d, S.sess.fields) THEN Threw(S, d, c)
    ELSE LET e == RemoveFields(S, d, S.sess.fields, 1) IN
         Returned(S, e, MoveCursor(c, d, e), {})

\* line 670 with r the outcome of getFields: reverse() reverses the cached
\* array itself
ExportFrom(r, d, c) ==
    IF r.threw THEN Threw(r.S, d, c)
    ELSE ExportFields([r.S EXCEPT !.sess.fields = Reverse(@)], d, c)

\* lines 662-687
Op_exportDocument(S, d, c) == ExportFrom(getFields(S, d), d, c)

\* line 236
Op_complete(S, d, c) == Returned(S, d, c, {})

(***************************************************************************)
(* The command loop: execCommand (64-90), respond (97-108) and             *)
(* callFunction (115-157).                                                 *)
(*   loop.pc  "start"    execCommand has not sent its request              *)
(*            "finally"  at line 87; "untrack" at line 88                  *)
(*            "call"     callFunction is about to run an operation         *)
(*            "respond"  respond is about to send loop.payload             *)
(*            "ended"    the promise of execCommand has settled            *)
(***************************************************************************)
MaxCmds == 3

NewLoop ==
    [pc |-> "start", outcome |-> "none", pending |-> FALSE, completed |-> 0,
     untracked |-> FALSE, finallyThrew |-> FALSE, n |-> 0, lastOp |-> "none",
     threw |-> FALSE, payload |-> [kind |-> "none", keys |-> {}], propagated |-> FALSE,
     responds |-> 0, relayFailed |-> FALSE, alert |-> FALSE, logged |-> FALSE]

NewHist ==
    [n |-> 0, prev |-> <<>>, last |-> <<>>, struct |-> FALSE, orph |-> FALSE, exp |-> FALSE,
     gapStruct |-> FALSE, gapOrph |-> FALSE, gapExp |-> FALSE, preOrph |-> {}]

SortIdle ==
    [fields |-> <<>>, notes |-> <<>>, noteSort |-> <<>>, compareValues |-> <<>>,
     flushes |-> 0, collected |-> {}, pc |-> "idle", out |-> <<>>]

RecIdle == [pc |-> "idle", S |-> [sess |-> NewSession, heap |-> <<>>, gw |-> NewGateway],
            comparisons |-> <<>>, threw |-> FALSE]

NoClicks == <<>>

NoDialog == [pc |-> "none"]

InitCursors(d) ==
    {[mode |-> "gap", fid |-> 0, g |-> g] : g \in 0..Len(d.anchors)} \cup
    {[mode |-> "caret", fid |-> FieldAt(d, pl).fid, g |-> 0] : pl \in Places(d)}

Init ==
    /\ srt = SortIdle
    /\ rec = RecIdle
    /\ doc \in InitDocs
    /\ cursor \in InitCursors(doc)
    /\ sess = NewSession
    /\ heap = <<>>
    /\ gw = NewGateway
    /\ loop = NewLoop
    /\ relay = [known |-> {}]
    /\ hist = NewHist
    /\ clicks = NoClicks
    /\ dlg = NoDialog

\* lines 64-85 without the test of line 77: a 503 falls through to
\* Zotero.logError like any other error (mutant)
execCommandLogBusy ==
    /\ loop.pc = "start"
    /\ \E outcome \in {"ok", "busy", "offline", "error"} :
          loop' = [loop EXCEPT !.pc = "finally", !.outcome = outcome,
                               !.pending = (outcome = "ok"),
                               !.alert = (outcome = "offline"),
                               !.logged = (outcome \in {"error", "busy"})]
    /\ UNCHANGED <<srt, doc, cursor, sess, heap, relay, gw, hist, rec, clicks, dlg>>

\* lines 64-85: the request, and what the try and catch blocks do with its
\* outcome.  With "ok", return this.callFunction(...) has started
\* callFunction, which waits in Word.run while the finally block runs.
execCommand ==
    /\ loop.pc = "start"
    /\ \E outcome \in {"ok", "busy", "offline", "error"} :
          loop' = [loop EXCEPT !.pc = "finally", !.outcome = outcome,
                               !.pending = (outcome = "ok"),
                               !.alert = (outcome = "offline"),
                               !.logged = (outcome = "error")]
    /\ UNCHANGED <<srt, doc, cursor, sess, heap, relay, gw, hist, rec, clicks, dlg>>

\* event.completed() at the end of the try block instead (mutant)
completedInTry ==
    /\ loop.pc = "finally"
    /\ loop' = [loop EXCEPT !.pc = "untrack",
                            !.completed = IF loop.outcome = "ok" THEN @ + 1 ELSE @]
    /\ UNCHANGED <<srt, doc, cursor, sess, heap, relay, gw, hist, rec, clicks, dlg>>

\* line 87
completed ==
    /\ loop.pc = "finally"
    /\ loop' = [loop EXCEPT !.pc = "untrack", !.completed = @ + 1]
    /\ UNCHANGED <<srt, doc, cursor, sess, heap, relay, gw, hist, rec, clicks, dlg>>

\* lines 88, 175-179.  this.context is unset outside Word.run (line 132), so
\* line 177 raises a TypeError when there is something to release.
_untrackAll ==
    /\ loop.pc = "untrack"
    /\ loop' = [loop EXCEPT !.pc = IF loop.pending THEN "call" ELSE "ended",
                            !.untracked = TRUE,
                            !.finallyThrew = (Len(sess.trackedObjects) > 0)]
    /\ UNCHANGED <<srt, doc, cursor, sess, heap, relay, gw, hist, rec, clicks, dlg>>

\* lines 97-108: the relay takes the payload and answers with the next
\* command, or the request fails and the error is logged
respond ==
    /\ loop.pc = "respond"
    /\ \E ok \in BOOLEAN :
          loop' = [loop EXCEPT !.pc = IF ok THEN "call" ELSE "ended",
                               !.responds = @ + 1,
                               !.relayFailed = ~ok,
                               !.logged = @ \/ ~ok]
    /\ UNCHANGED <<srt, doc, cursor, sess, heap, relay, gw, hist, rec, clicks, dlg>>

\* lines 138-142; error is e.type || `Connector Error`, and neither a
\* TypeError, an Error nor a host error has a type
ErrorPayload ==
    [kind |-> "error", keys |-> {"error", "message", "stack"}, error |-> "Connector Error"]

\* lines 136-156 without the catch (mutant)
SettlePropagate(l, truthy) ==
    IF l.threw THEN [l EXCEPT !.pc = "ended", !.propagated = TRUE]
    ELSE IF l.lastOp = "complete" THEN [l EXCEPT !.pc = "ended"]
    ELSE [l EXCEPT !.pc = "respond",
                   !.payload = [kind |-> IF truthy THEN "json" ELSE "null", keys |-> {}]]

\* lines 136-156 with a result that is not truthy returned, not relayed (mutant)
SettleSkipNull(l, truthy) ==
    IF l.lastOp = "complete" \/ (~l.threw /\ ~truthy) THEN [l EXCEPT !.pc = "ended"]
    ELSE [l EXCEPT !.pc = "respond",
                   !.payload = IF l.threw THEN ErrorPayload ELSE [kind |-> "json", keys |-> {}]]

\* lines 136-156: what callFunction does with the outcome of the operation
Settle(l, truthy) ==
    IF l.lastOp = "complete" THEN [l EXCEPT !.pc = "ended"]
    ELSE [l EXCEPT !.pc = "respond",
                   !.payload = IF l.threw THEN ErrorPayload
                               ELSE [kind |-> IF truthy THEN "json" ELSE "null", keys |-> {}]]

\* lines 115-157 around the operation op with outcome r
Apply(op, r, truthy, h) ==
    /\ sess' = r.S.sess
    /\ heap' = r.S.heap
    /\ gw' = r.S.gw
    /\ doc' = r.d
    /\ cursor' = r.c
    /\ loop' = Settle([loop EXCEPT !.n = @ + 1, !.lastOp = op, !.threw = r.threw],
                      truthy /\ ~r.threw)
    /\ relay' = [relay EXCEPT !.known = @ \cup r.ret]
    /\ hist' = h
    /\ UNCHANGED <<srt, rec, clicks, dlg>>

Here == [sess |-> sess, heap |-> heap, gw |-> gw]

\* lines 120-123: the objects Word.run is called with, when there are any
wordRunArgs(S) == Range(S.sess.trackedObjects)

Dispatch == loop.pc = "call" /\ loop.n < MaxCmds

\* observer: what happened since the last getFields that returned
Mark(struct, orph, exp) ==
    [hist EXCEPT !.struct = @ \/ struct, !.orph = @ \/ orph, !.exp = @ \/ exp,
                 !.preOrph = {}]

PendingOrphans ==
    {<<heap[o].id, heap[o].fid>> : o \in {x \in Range(sess.orphanFields) : InDoc(doc, heap[x].fid)}}

\* observer: the ids a getFields that returned has given
Noted(r) ==
    IF r.threw THEN [hist EXCEPT !.preOrph = PendingOrphans]
    ELSE [n |-> IF hist.n = 0 THEN 1 ELSE 2,
          prev |-> hist.last, last |-> Ids(r.S, r.S.sess.fields),
          struct |-> FALSE, orph |-> FALSE, exp |-> FALSE,
          gapStruct |-> hist.struct, gapOrph |-> hist.orph, gapExp |-> hist.exp,
          preOrph |-> PendingOrphans]

ApplyGetFields(r) == Apply("getFields", r, TRUE, Noted(r))

call_getFields ==
    /\ Dispatch
    /\ ApplyGetFields(Op_getFields(Here, doc, cursor))

ApplyCursorInField(r) ==
    Apply("cursorInField", r, r.ret # {}, Mark(FALSE, r.ret # {}, FALSE))

call_cursorInField ==
    /\ Dispatch
    /\ ApplyCursorInField(Op_cursorInField(Here, doc, cursor))

call_insertField ==
    /\ Dispatch
    /\ cursor.mode = "gap"
    /\ \E noteType \in 0..2 :
          Apply("insertField", Op_insertField(Here, doc, cursor, noteType), TRUE,
                Mark(TRUE, TRUE, FALSE))

call_setText ==
    /\ Dispatch
    /\ \E fieldID \in relay.known :
          Apply("setText", Op_setText(Here, doc, cursor, fieldID), FALSE,
                Mark(FALSE, FALSE, FALSE))

call_setCode ==
    /\ Dispatch
    /\ \E fieldID \in relay.known :
          Apply("setCode", Op_setCode(Here, doc, cursor, fieldID), FALSE,
                Mark(FALSE, FALSE, FALSE))

call_select ==
    /\ Dispatch
    /\ \E fieldID \in relay.known :
          Apply("select", Op_select(Here, doc, cursor, fieldID), FALSE,
                Mark(FALSE, FALSE, FALSE))

call_delete ==
    /\ Dispatch
    /\ \E fieldID \in relay.known :
          Apply("delete", Op_delete(Here, doc, cursor, fieldID), FALSE,
                Mark(TRUE, FALSE, FALSE))

call_exportDocument ==
    /\ Dispatch
    /\ Apply("exportDocument", Op_exportDocument(Here, doc, cursor), FALSE,
             Mark(FALSE, FALSE, TRUE))

call_complete ==
    /\ loop.pc = "call"
    /\ Apply("complete", Op_complete(Here, doc, cursor), FALSE, Mark(FALSE, FALSE, FALSE))

Next ==
    \/ execCommand
    \/ completed
    \/ _untrackAll
    \/ respond
    \/ call_getFields
    \/ call_cursorInField
    \/ call_insertField
    \/ call_setText
    \/ call_setCode
    \/ call_select
    \/ call_delete
    \/ call_exportDocument
    \/ call_complete

Spec == Init /\ [][Next]_vars

(***************************************************************************)
(* The command loop with a relay that may send any method name: line 130   *)
(* looks the name up on the session object itself.                         *)
(***************************************************************************)
\* the operations of the session that the model dispatches
Supported ==
    {"getFields", "cursorInField", "insertField", "setText", "setCode", "select",
     "delete", "exportDocument", "complete"}

\* lines 175-179 run as an operation, inside Word.run: this.context is set
Op_untrackAll(S, d, c) == Returned(Release(S, S.sess.trackedObjects), d, c, {})

\* a name that is no member of the session: this[method] is undefined and
\* .apply raises a TypeError inside the transaction
call_unknown ==
    /\ Dispatch
    /\ Apply("unknown", Threw(Here, doc, cursor), FALSE, Mark(FALSE, FALSE, FALSE))

\* the name of an internal member, here _untrackAll: this[method] is a
\* function and line 130 runs it
call_untrackAll ==
    /\ Dispatch
    /\ Apply("_untrackAll", Op_untrackAll(Here, doc, cursor), FALSE,
             Mark(FALSE, FALSE, FALSE))

DispatchNext == Next \/ call_unknown \/ call_untrackAll

SpecDispatch == Init /\ [][DispatchNext]_vars

(***************************************************************************)
(* _sortNotesIntoFields on its own: every layout of up to MaxN fields and  *)
(* MaxM notes, the notes listed in document order as the host lists them.  *)
(***************************************************************************)
Count(layout, x) == Cardinality({i \in 1..Len(layout) : layout[i] = x})

Layouts ==
    {l \in UNION {[1..n -> {"f", "n"}] : n \in 0..(MaxN + MaxM)} :
        Count(l, "f") <= MaxN /\ Count(l, "n") <= MaxM}

Pick(layout, x, kind) ==
    LET F[i \in 0..Len(layout)] ==
            IF i = 0 THEN <<>>
            ELSE IF layout[i] = x THEN Append(F[i - 1], [pos |-> i, kind |-> kind])
            ELSE F[i - 1]
    IN  F[Len(layout)]

SortInit ==
    /\ srt \in {[SortIdle EXCEPT !.pc = "start", !.fields = Pick(l, "f", 0),
                                 !.notes = Pick(l, "n", 1)] : l \in Layouts}
    /\ rec = RecIdle
    /\ doc = [anchors |-> <<>>, fresh |-> 0]
    /\ cursor = [mode |-> "gap", fid |-> 0, g |-> 0]
    /\ sess = NewSession
    /\ heap = <<>>
    /\ gw = NewGateway
    /\ loop = NewLoop
    /\ relay = [known |-> {}]
    /\ hist = NewHist
    /\ clicks = NoClicks
    /\ dlg = NoDialog

Rest == <<doc, cursor, sess, heap, loop, relay, gw, hist, clicks, dlg>>

sortBegin ==
    /\ srt.pc = "start"
    /\ srt' = SortBegin(srt.fields, srt.notes)
    /\ UNCHANGED <<Rest, rec>>

sortRound ==
    /\ srt.pc = "loop"
    /\ srt' = SortRound(srt)
    /\ UNCHANGED <<Rest, rec>>

sortMerge ==
    /\ srt.pc = "sorted"
    /\ srt' = Merge(srt)
    /\ UNCHANGED <<Rest, rec>>

SortNext == sortBegin \/ sortRound \/ sortMerge

SpecSort == SortInit /\ [][SortNext]_vars

(***************************************************************************)
(* The orphan reconciliation of getFields on its own: a cached list of up  *)
(* to MaxCached Fields, up to MaxOrphans orphans, and every table of       *)
(* comparison values the host may report for them.                         *)
(***************************************************************************)
MaxCached == 2
MaxOrphans == 2

RECURSIVE RecSession(_, _, _)
RecSession(S, nf, no) ==
    IF Len(S.heap) < nf
    THEN LET S1 == _wordFieldToField(S, Len(S.heap) + 1, 0, 0, Len(S.heap) + 1, FALSE) IN
         RecSession([S1 EXCEPT !.sess.fields = Append(@, LastField(S1)),
                               !.sess.hasFields = TRUE], nf, no)
    ELSE IF Len(S.heap) < nf + no
    THEN RecSession(_wordFieldToField(S, 0, 0, 0, Len(S.heap) + 1, TRUE), nf, no)
    ELSE S

RecInit ==
    /\ \E nf \in 0..MaxCached, no \in 1..MaxOrphans :
          \E table \in [1..no -> [1..nf -> {"Equal", "Before", "After"}]] :
              rec = [pc |-> "start", S |-> RecSession(RecIdle.S, nf, no),
                     comparisons |-> table, threw |-> FALSE]
    /\ srt = SortIdle
    /\ doc = [anchors |-> <<>>, fresh |-> 0]
    /\ cursor = [mode |-> "gap", fid |-> 0, g |-> 0]
    /\ sess = NewSession
    /\ heap = <<>>
    /\ gw = NewGateway
    /\ loop = NewLoop
    /\ relay = [known |-> {}]
    /\ hist = NewHist
    /\ clicks = NoClicks
    /\ dlg = NoDialog

reconcile ==
    /\ rec.pc = "start"
    /\ LET r == Reconcile(rec.S, rec.comparisons) IN
       rec' = [rec EXCEPT !.pc = "done", !.S = r.S, !.threw = r.threw]
    /\ UNCHANGED <<Rest, srt>>

SpecReconcile == RecInit /\ [][reconcile]_vars

(***************************************************************************)
(* Several button clicks (wordJs.js 31-37): each click makes a session of  *)
(* its own and starts its command loop.  Of a session only the position    *)
(* of its loop and its open transactions are kept:                         *)
(*   pc  "idle"         the button has not been clicked                    *)
(*       "execCommand"  the request of line 66 is with the relay           *)
(*       "call"         callFunction is about to call Word.run             *)
(*       "Word.run"     callFunction waits for Word.run (line 126)         *)
(*       "respond"      the request of line 99 is with the relay           *)
(*       "ended"        the loop has ended                                 *)
(* The relay answers execCommand with 503 while the command loop of        *)
(* another session is running.                                             *)
(***************************************************************************)
MaxClicks == 3

NewClick == [pc |-> "idle", open |-> 0, n |-> 0, method |-> "none", outcome |-> "none"]

Running(s) == clicks[s].pc \in {"call", "Word.run", "respond"}

Methods(s) == IF clicks[s].n < MaxCmds THEN {"op", "complete"} ELSE {"complete"}

ClicksInit ==
    /\ srt = SortIdle
    /\ rec = RecIdle
    /\ doc = [anchors |-> <<>>, fresh |-> 0]
    /\ cursor = [mode |-> "gap", fid |-> 0, g |-> 0]
    /\ sess = NewSession
    /\ heap = <<>>
    /\ gw = NewGateway
    /\ loop = NewLoop
    /\ relay = [known |-> {}]
    /\ hist = NewHist
    /\ clicks = [s \in 1..MaxClicks |-> NewClick]
    /\ dlg = NoDialog

Others == <<srt, doc, cursor, sess, heap, loop, relay, gw, hist, rec, dlg>>

\* wordJs.js 31-37: new Zotero.Session(event, button), session.execCommand(button)
generateButtonHandler(s) ==
    /\ clicks[s].pc = "idle"
    /\ clicks' = [clicks EXCEPT ![s].pc = "execCommand"]
    /\ UNCHANGED Others

\* lines 66-85: the relay's answer to execCommand
execCommandAnswered(s) ==
    /\ clicks[s].pc = "execCommand"
    /\ IF \E t \in 1..MaxClicks : t # s /\ Running(t)
       THEN clicks' = [clicks EXCEPT ![s].pc = "ended", ![s].outcome = "busy"]
       ELSE \E outcome \in {"ok", "busy", "offline", "error"}, method \in Methods(s) :
               clicks' = [clicks EXCEPT ![s].pc = IF outcome = "ok" THEN "call" ELSE "ended",
                                        ![s].outcome = outcome,
                                        ![s].method = method]
    /\ UNCHANGED Others

\* line 126 without the await: callFunction goes on while the transaction
\* is open (mutant)
Word_run_NoAwait(s) ==
    /\ clicks[s].pc = "call"
    /\ clicks' = [clicks EXCEPT ![s].pc = IF clicks[s].method = "complete" THEN "ended"
                                          ELSE "respond",
                                ![s].open = @ + 1,
                                ![s].n = @ + 1]
    /\ UNCHANGED Others

\* line 126: Word.run opens the transaction and callFunction waits for it
Word_run(s) ==
    /\ clicks[s].pc = "call"
    /\ clicks' = [clicks EXCEPT ![s].pc = "Word.run", ![s].open = @ + 1, ![s].n = @ + 1]
    /\ UNCHANGED Others

\* lines 126-156: Word.run has settled, the transaction is closed; complete
\* returns, every other method goes to respond
Word_run_settled(s) ==
    /\ clicks[s].pc = "Word.run"
    /\ clicks' = [clicks EXCEPT ![s].pc = IF clicks[s].method = "complete" THEN "ended"
                                          ELSE "respond",
                                ![s].open = @ - 1]
    /\ UNCHANGED Others

\* lines 97-108: the relay's answer to respond
respondAnswered(s) ==
    /\ clicks[s].pc = "respond"
    /\ \E ok \in BOOLEAN, method \in Methods(s) :
          clicks' = [clicks EXCEPT ![s].pc = IF ok THEN "call" ELSE "ended",
                                   ![s].method = IF ok THEN method ELSE @]
    /\ UNCHANGED Others

ClicksNext ==
    \E s \in 1..MaxClicks :
        \/ generateButtonHandler(s)
        \/ execCommandAnswered(s)
        \/ Word_run(s)
        \/ Word_run_settled(s)
        \/ respondAnswered(s)

SpecClicks == ClicksInit /\ [][ClicksNext]_vars

(***************************************************************************)
(* getFields on its own: the first command of the loop is getFields, on    *)
(* every document of up to MaxRebuildDoc anchors, with notes that hold no  *)
(* field with the prefix, or one with and one without it, among the        *)
(* shapes.                                                                 *)
(***************************************************************************)
MaxRebuildDoc == 2

RebuildShapes == Shapes \cup {"footnoteOther", "endnoteMixed"}

RebuildDocs ==
    UNION {{[anchors |-> [i \in 1..n |-> ShapeAnchor(sh[i], i)], fresh |-> 2 * n] :
               sh \in [1..n -> RebuildShapes]} : n \in 0..MaxRebuildDoc}

\* execCommand has got its first command and its finally block has run
RebuildInit ==
    /\ srt = SortIdle
    /\ rec = RecIdle
    /\ doc \in RebuildDocs
    /\ cursor = [mode |-> "gap", fid |-> 0, g |-> 0]
    /\ sess = NewSession
    /\ heap = <<>>
    /\ gw = NewGateway
    /\ loop = [NewLoop EXCEPT !.pc = "call", !.outcome = "ok", !.pending = TRUE,
                              !.completed = 1, !.untracked = TRUE]
    /\ relay = [known |-> {}]
    /\ hist = NewHist
    /\ clicks = NoClicks
    /\ dlg = NoDialog

RebuildNext == call_getFields \/ respond

SpecRebuild == RebuildInit /\ [][RebuildNext]_vars

(***************************************************************************)
(* The adjacency pass of getFields (357-366) on its own: a rebuilt list of *)
(* up to MaxAdj Fields and every table of values that the host may report  *)
(* for the comparisons of neighbours.                                      *)
(*   rec.pc  "start"  line 357 is about to run                             *)
(*           "flush"  the for loop has queued its comparisons (358-362)    *)
(*           "tag"    the flush of line 363 has brought the values         *)
(*           "done"   the forEach of lines 364-366 has run                 *)
(***************************************************************************)
MaxAdj == 4

\* values of Word.LocationRelation that two fields of a list can give
Relations == {"Before", "AdjacentBefore", "After", "Equal"}

AdjInit ==
    /\ \E len \in 0..MaxAdj :
          \E table \in [1..(len - 1) -> Relations] :
              rec = [pc |-> "start", S |-> RecSession(RecIdle.S, len, 0),
                     comparisons |-> table, threw |-> FALSE,
                     adjacency |-> <<>>, flushes |-> 0]
    /\ srt = SortIdle
    /\ doc = [anchors |-> <<>>, fresh |-> 0]
    /\ cursor = [mode |-> "gap", fid |-> 0, g |-> 0]
    /\ sess = NewSession
    /\ heap = <<>>
    /\ gw = NewGateway
    /\ loop = NewLoop
    /\ relay = [known |-> {}]
    /\ hist = NewHist
    /\ clicks = NoClicks
    /\ dlg = NoDialog

\* lines 357-362: one proxy of a result per pair of neighbours, none for
\* the last Field
QueueAdjacency(fields) ==
    [i \in 1..Len(fields) |-> IF i < Len(fields) THEN "queued" ELSE NoCompare]

\* line 363: the flush gives the queued proxies their values
FlushAdjacency(adjacency, values) ==
    [i \in 1..Len(adjacency) |-> IF adjacency[i] = "queued" THEN values[i] ELSE adjacency[i]]

\* lines 364-366 with the value of the pair before (mutant)
TagAdjacentShifted(S, adjacency) ==
    [S EXCEPT !.heap =
        [a \in 1..Len(S.heap) |->
            IF \E idx \in 1..Len(S.sess.fields) : S.sess.fields[idx] = a
            THEN LET idx == CHOOSE i \in 1..Len(S.sess.fields) : S.sess.fields[i] = a
                 IN  [adjacent |-> (idx > 1 /\ adjacency[idx - 1] = "AdjacentBefore")] @@ S.heap[a]
            ELSE S.heap[a]]]

\* lines 364-366: field.adjacent = adjacency[idx].value === "AdjacentBefore"
TagAdjacent(S, adjacency) ==
    [S EXCEPT !.heap =
        [a \in 1..Len(S.heap) |->
            IF \E idx \in 1..Len(S.sess.fields) : S.sess.fields[idx] = a
            THEN LET idx == CHOOSE i \in 1..Len(S.sess.fields) : S.sess.fields[i] = a
                 IN  [adjacent |-> (adjacency[idx] = "AdjacentBefore")] @@ S.heap[a]
            ELSE S.heap[a]]]

adjQueue ==
    /\ rec.pc = "start"
    /\ rec' = [rec EXCEPT !.pc = "flush", !.adjacency = QueueAdjacency(rec.S.sess.fields)]
    /\ UNCHANGED <<Rest, srt>>

adjFlush ==
    /\ rec.pc = "flush"
    /\ rec' = [rec EXCEPT !.pc = "tag", !.flushes = @ + 1,
                          !.adjacency = FlushAdjacency(@, rec.comparisons)]
    /\ UNCHANGED <<Rest, srt>>

adjTag ==
    /\ rec.pc = "tag"
    /\ rec' = [rec EXCEPT !.pc = "done", !.S = TagAdjacent(@, rec.adjacency)]
    /\ UNCHANGED <<Rest, srt>>

AdjNext == adjQueue \/ adjFlush \/ adjTag

SpecAdjacency == AdjInit /\ [][AdjNext]_vars

(***************************************************************************)
(* displayAlert (session.js 238-267) and the dialog page (dialog.js        *)
(* 35-74).                                                                 *)
(*   dlg.pc  "start"     displayAlert is about to call displayDialogAsync  *)
(*           "rejected"  displayDialogAsync has reported an error          *)
(*           "open"      the dialog shows its buttons                      *)
(*           "message"   the page has called messageParent                 *)
(*           "resolved"  the promise of displayAlert has a value           *)
(***************************************************************************)
MaxIcon == 2

\* lines 239-244
buttonMapping == <<<<"OK">>, <<"Ok", "Cancel">>, <<"Yes", "No">>, <<"Yes", "No", "Cancel">>>>

\* Office.context.ui.messageParent delivers its argument as a string
String(n) == [type |-> "string", value |-> n]
Number(n) == [type |-> "number", value |-> n]

DialogInit ==
    /\ \E buttons \in 0..3, icon \in 0..MaxIcon :
          dlg = [pc |-> "start", buttons |-> buttons, icon |-> icon, shown |-> <<>>,
                 user |-> <<"none", 0>>, message |-> Number(0), result |-> Number(0)]
    /\ srt = SortIdle
    /\ rec = RecIdle
    /\ doc = [anchors |-> <<>>, fresh |-> 0]
    /\ cursor = [mode |-> "gap", fid |-> 0, g |-> 0]
    /\ sess = NewSession
    /\ heap = <<>>
    /\ gw = NewGateway
    /\ loop = NewLoop
    /\ relay = [known |-> {}]
    /\ hist = NewHist
    /\ clicks = NoClicks

NoDialogChange == <<srt, doc, cursor, sess, heap, loop, relay, gw, hist, rec, clicks>>

\* lines 245-253 and dialog.js 36-37, 46-70: the dialog is shown with the
\* buttons of buttonMapping[buttons], or displayDialogAsync reports an error
displayDialogAsync ==
    /\ dlg.pc = "start"
    /\ \E error \in BOOLEAN :
          dlg' = IF error THEN [dlg EXCEPT !.pc = "rejected"]
                 ELSE [dlg EXCEPT !.pc = "open", !.shown = buttonMapping[dlg.buttons + 1]]
    /\ UNCHANGED NoDialogChange

\* dialog.js 61-63 with clickButton(idx) (mutant)
clickValueIndex(buttons, idx) == idx

\* dialog.js 61-63: clickButton(buttons.length - 1 - idx)
clickValue(buttons, idx) == Len(buttons) - 1 - idx

\* dialog.js 61-63, 72-74: the user presses the button with index idx
clickButton ==
    /\ dlg.pc = "open"
    /\ \E idx \in 0..(Len(dlg.shown) - 1) :
          dlg' = [dlg EXCEPT !.pc = "message", !.user = <<"click", idx>>,
                             !.message = String(clickValue(dlg.shown, idx))]
    /\ UNCHANGED NoDialogChange

\* dialog.js 39-43: the user presses Escape
keydownEscape ==
    /\ dlg.pc = "open"
    /\ dlg' = [dlg EXCEPT !.pc = "message", !.user = <<"escape", 0>>, !.message = String(0)]
    /\ UNCHANGED NoDialogChange

\* lines 255-258: DialogMessageReceived closes the dialog and resolves
\* with the message
DialogMessageReceived ==
    /\ dlg.pc = "message"
    /\ dlg' = [dlg EXCEPT !.pc = "resolved", !.result = dlg.message]
    /\ UNCHANGED NoDialogChange

\* lines 259-264: the user closes the window (error 12006)
DialogEventReceived ==
    /\ dlg.pc = "open"
    /\ dlg' = [dlg EXCEPT !.pc = "resolved", !.user = <<"close", 0>>, !.result = Number(0)]
    /\ UNCHANGED NoDialogChange

DialogNext ==
    \/ displayDialogAsync
    \/ clickButton
    \/ keydownEscape
    \/ DialogMessageReceived
    \/ DialogEventReceived

SpecDialog == DialogInit /\ [][DialogNext]_vars

(***************************************************************************)
(* insertText after delete (499-519, 722-752): the commands of one session *)
(* that insert fields, look at the selection, delete fields and insert     *)
(* text.  hist.removed is the type of the note that a delete removed last  *)
(* (0: none so far), read off the document before and after the delete.    *)
(***************************************************************************)
MaxTextCmds == 4

NoteKeys(d) == {AnchorKey(d.anchors[i]) : i \in {j \in 1..Len(d.anchors) : d.anchors[j].kind # 0}}

\* observer: the type of the note removed between d and e, or the last one before
Removed(d, e) ==
    IF NoteKeys(d) \subseteq NoteKeys(e) THEN hist
    ELSE [removed |-> (CHOOSE k \in NoteKeys(d) \ NoteKeys(e) : TRUE)[1]]

TextInit ==
    /\ srt = SortIdle
    /\ rec = RecIdle
    /\ doc \in InitDocs
    /\ cursor \in InitCursors(doc)
    /\ sess = NewSession
    /\ heap = <<>>
    /\ gw = NewGateway
    /\ loop = [NewLoop EXCEPT !.pc = "call", !.outcome = "ok", !.pending = TRUE,
                              !.completed = 1, !.untracked = TRUE]
    /\ relay = [known |-> {}]
    /\ hist = [removed |-> 0]
    /\ clicks = NoClicks
    /\ dlg = NoDialog

TextDispatch == loop.pc = "call" /\ loop.n < MaxTextCmds

TextApply(op, r, truthy) == Apply(op, r, truthy, Removed(doc, r.d))

text_cursorInField ==
    /\ TextDispatch
    /\ LET r == Op_cursorInField(Here, doc, cursor) IN
       TextApply("cursorInField", r, r.ret # {})

text_insertField ==
    /\ TextDispatch
    /\ cursor.mode = "gap"
    /\ \E noteType \in 0..2 :
          TextApply("insertField", Op_insertField(Here, doc, cursor, noteType), TRUE)

text_delete ==
    /\ TextDispatch
    /\ \E fieldID \in relay.known :
          TextApply("delete", Op_delete(Here, doc, cursor, fieldID), FALSE)

text_insertText ==
    /\ TextDispatch
    /\ TextApply("insertText", Op_insertText(Here, doc, cursor), FALSE)

TextNext == text_cursorInField \/ text_insertField \/ text_delete \/ text_insertText \/ respond

SpecText == TextInit /\ [][TextNext]_vars

(***************************************************************************)
(* What callFunction relays (lines 127-128, 155-156).  A JavaScript value  *)
(* is [type, value]; String(n) is the string of the digits of n.  rec is   *)
(* the call: the method, its inputs, the result of the operation and the   *)
(* payload handed to respond, a text given as its sequence of characters.  *)
(***************************************************************************)
Undefined == [type |-> "undefined", value |-> 0]
Null == [type |-> "null", value |-> 0]
Boolean(b) == [type |-> "boolean", value |-> b]

\* the truthiness that the conditional operator of line 156 tests
ToBoolean(v) ==
    CASE v.type = "undefined" -> FALSE
      [] v.type = "null"      -> FALSE
      [] v.type = "boolean"   -> v.value
      [] v.type = "number"    -> v.value # 0
      [] v.type = "string"    -> TRUE

Digit(n) == <<"0", "1", "2", "3", "4", "5", "6", "7", "8", "9">>[n + 1]

RECURSIVE Digits(_)
Digits(n) == IF n < 10 THEN <<Digit(n)>> ELSE Append(Digits(n \div 10), Digit(n % 10))

\* JSON.stringify of a value that has a JSON text
JSON_stringify(v) ==
    CASE v.type = "null"    -> <<"n", "u", "l", "l">>
      [] v.type = "boolean" -> IF v.value THEN <<"t", "r", "u", "e">>
                               ELSE <<"f", "a", "l", "s", "e">>
      [] v.type = "number"  -> Digits(v.value)
      [] v.type = "string"  -> <<"\"">> \o Digits(v.value) \o <<"\"">>

\* line 156: result ? JSON.stringify(result) : 'null'
Payload(result) ==
    IF ToBoolean(result) THEN JSON_stringify(result) ELSE <<"n", "u", "l", "l">>

BodyTypes == {"MainDoc", "Footnote", "Endnote", "Header", "Footer", "Section", "TableCell"}

\* lines 396-403
canInsertField(fieldType, type) ==
    Boolean((fieldType # "Bookmark" /\ type \in {"Footnote", "Endnote"}) \/ type = "MainDoc")

\* lines 238-267 with what the user does to the dialog
displayAlert(buttons, user) ==
    CASE user[1] = "click"  -> String(clickValue(buttonMapping[buttons + 1], user[2]))
      [] user[1] = "escape" -> String(0)
      [] user[1] = "close"  -> Number(0)

\* lines 614-660: whether a link with the document preferences was found
importDocument(found) == Boolean(found)

VoidMethods == {"setText", "setCode", "select", "delete", "insertText", "activate", "complete"}

Calls ==
    {[method |-> "canInsertField", fieldType |-> ft, type |-> ty] :
        ft \in {"Field", "Bookmark"}, ty \in BodyTypes}
    \cup UNION {{[method |-> "displayAlert", buttons |-> b, user |-> <<"click", idx>>] :
                    idx \in 0..(Len(buttonMapping[b + 1]) - 1)} : b \in 0..3}
    \cup {[method |-> "displayAlert", buttons |-> b, user |-> <<u, 0>>] :
             b \in 0..3, u \in {"escape", "close"}}
    \cup {[method |-> "importDocument", found |-> f] : f \in BOOLEAN}
    \cup {[method |-> "cursorInField"]}
    \cup {[method |-> m] : m \in VoidMethods}

\* line 128: result = await this[method].apply(this, args)
ResultOf(call) ==
    CASE call.method = "canInsertField" -> canInsertField(call.fieldType, call.type)
      [] call.method = "displayAlert"   -> displayAlert(call.buttons, call.user)
      [] call.method = "importDocument" -> importDocument(call.found)
      [] call.method = "cursorInField"  -> Null
      [] OTHER                          -> Undefined

PayloadInit ==
    /\ \E call \in Calls :
          rec = [pc |-> "start", call |-> call, result |-> Undefined, payload |-> <<>>]
    /\ srt = SortIdle
    /\ doc = [anchors |-> <<>>, fresh |-> 0]
    /\ cursor = [mode |-> "gap", fid |-> 0, g |-> 0]
    /\ sess = NewSession
    /\ heap = <<>>
    /\ gw = NewGateway
    /\ loop = NewLoop
    /\ relay = [known |-> {}]
    /\ hist = NewHist
    /\ clicks = NoClicks
    /\ dlg = NoDialog

\* lines 126-133: the operation has run inside Word.run
operationReturned ==
    /\ rec.pc = "start"
    /\ rec' = [rec EXCEPT !.pc = "returned", !.result = ResultOf(rec.call)]
    /\ UNCHANGED <<Rest, srt>>

\* lines 155-156
resultRelayed ==
    /\ rec.pc = "returned"
    /\ rec' = IF rec.call.method = "complete" THEN [rec EXCEPT !.pc = "ended"]
              ELSE [rec EXCEPT !.pc = "respond", !.payload = Payload(rec.result)]
    /\ UNCHANGED <<Rest, srt>>

PayloadNext == operationReturned \/ resultRelayed

SpecPayload == PayloadInit /\ [][PayloadNext]_vars

(***************************************************************************)
(* The document data (199-228).  A text is the sequence of its characters. *)
(* rec.props is the custom property collection in the order the host lists *)
(* it: a property is [pref, n, value], where pref tells whether its key    *)
(* starts with PREF_PREFIX and n is the number of the key ZOTERO_PREF_n.   *)
(* PREF_LENGTH is 255 in the source (line 36) and scaled down here.        *)
(***************************************************************************)
PREF_LENGTH == 2
MaxData == 21
MaxStart == 0
MaxSets == 2

Alphabet ==
    <<"a", "b", "c", "d", "e", "f", "g", "h", "i", "j", "k", "l", "m",
      "n", "o", "p", "q", "r", "s", "t", "u", "v", "w", "x", "y", "z">>

\* the n characters of the alphabet after the first start ones, going round
Text(start, n) == [p \in 1..n |-> Alphabet[((start + p - 1) % Len(Alphabet)) + 1]]

Data == {Text(start, n) : start \in 0..MaxStart, n \in 0..MaxData}

\* String.prototype.slice(0, PREF_LENGTH) and slice(PREF_LENGTH)
SliceHead(data) == SubSeq(data, 1, IF Len(data) < PREF_LENGTH THEN Len(data) ELSE PREF_LENGTH)
SliceTail(data) == SubSeq(data, PREF_LENGTH + 1, Len(data))

\* customProperties.add(key, value): a new property, or the value of the
\* property that has the key
PropertiesAdd(props, n, value) ==
    IF \E i \in 1..Len(props) : props[i].pref /\ props[i].n = n
    THEN [i \in 1..Len(props) |->
             IF props[i].pref /\ props[i].n = n THEN [props[i] EXCEPT !.value = value]
             ELSE props[i]]
    ELSE Append(props, [pref |-> TRUE, n |-> n, value |-> value])

\* lines 222-226 from the key number i on
RECURSIVE SetFrom(_, _, _)
SetFrom(props, data, i) ==
    IF Len(data) = 0 THEN props
    ELSE SetFrom(PropertiesAdd(props, i, SliceHead(data)), SliceTail(data), i + 1)

\* lines 220-228
setDocumentData(props, data) == SetFrom(props, data, 1)

DigitValue(ch) == CHOOSE n \in 0..9 : Digit(n) = ch

\* a > b for two strings of digits, compared character by character
RECURSIVE StringGreater(_, _)
StringGreater(a, b) ==
    IF Len(a) = 0 THEN FALSE
    ELSE IF Len(b) = 0 THEN TRUE
    ELSE IF Head(a) # Head(b) THEN DigitValue(Head(a)) > DigitValue(Head(b))
    ELSE StringGreater(Tail(a), Tail(b))

\* a.key > b.key (line 216): the keys share the prefix "ZOTERO_PREF_"
KeyGreater(a, b) == StringGreater(Digits(a.n), Digits(b.n))

\* x put into the list that is sorted by key
RECURSIVE InsertByKey(_, _)
InsertByKey(sorted, x) ==
    IF Len(sorted) = 0 THEN <<x>>
    ELSE IF KeyGreater(Head(sorted), x) THEN <<x>> \o sorted
    ELSE <<Head(sorted)>> \o InsertByKey(Tail(sorted), x)

RECURSIVE SortByKey(_)
SortByKey(list) ==
    IF Len(list) = 0 THEN <<>> ELSE InsertByKey(SortByKey(SubSeq(list, 1, Len(list) - 1)),
                                                list[Len(list)])

\* line 216: the comparator gives true or false, never a negative number,
\* so the order that sort leaves is up to the engine: the list as it was
\* (a false is taken as equal) or the list sorted by key (only true swaps)
SortOutcomes == {"unchanged", "byKey"}

SortPieces(pieces, outcome) == IF outcome = "byKey" THEN SortByKey(pieces) ELSE pieces

\* line 217: map(i => i.value).join('')
RECURSIVE Join(_)
Join(pieces) == IF Len(pieces) = 0 THEN <<>> ELSE Head(pieces).value \o Join(Tail(pieces))

EXPORT_DOCUMENT_MARKER == <<"Z", "O", "T", "E", "R", "O", "_", "T", "R", "A", "N", "S", "F", "E", "R",
                            "_", "D", "O", "C", "U", "M", "E", "N", "T">>

\* lines 199-218
getDocumentData(props, exported, outcome) ==
    IF exported THEN EXPORT_DOCUMENT_MARKER
    ELSE LET IsPref(item) == item.pref IN
         Join(SortPieces(SelectSeq(props, IsPref), outcome))

\* a new session on a document without document data; the document may
\* hold a custom property of its own and may start with the export marker
DataInit ==
    /\ \E exported \in BOOLEAN, own \in BOOLEAN :
          rec = [pc |-> "start",
                 props |-> IF own THEN <<[pref |-> FALSE, n |-> 0, value |-> <<"x">>]>> ELSE <<>>,
                 exported |-> exported, data |-> <<>>, sets |-> 0, got |-> <<>>]
    /\ srt = SortIdle
    /\ doc = [anchors |-> <<>>, fresh |-> 0]
    /\ cursor = [mode |-> "gap", fid |-> 0, g |-> 0]
    /\ sess = NewSession
    /\ heap = <<>>
    /\ gw = NewGateway
    /\ loop = NewLoop
    /\ relay = [known |-> {}]
    /\ hist = NewHist
    /\ clicks = NoClicks
    /\ dlg = NoDialog

call_setDocumentData ==
    /\ rec.sets < MaxSets
    /\ \E data \in Data :
          rec' = [rec EXCEPT !.pc = "set", !.props = setDocumentData(rec.props, data),
                             !.data = data, !.sets = @ + 1]
    /\ UNCHANGED <<Rest, srt>>

call_getDocumentData ==
    /\ rec.pc # "got"
    /\ \E outcome \in SortOutcomes :
          rec' = [rec EXCEPT !.pc = "got",
                             !.got = getDocumentData(rec.props, rec.exported, outcome)]
    /\ UNCHANGED <<Rest, srt>>

DataNext == call_setDocumentData \/ call_getDocumentData

SpecData == DataInit /\ [][DataNext]_vars

(***************************************************************************)
(* Properties.                                                             *)
(***************************************************************************)
Collapsed(st) == \A i \in 1..Len(st.noteSort) : st.noteSort[i].lower = st.noteSort[i].upper

\* C1: for every layout with at least one field, _sortNotesIntoFields leaves
\* its loop with lower = upper for every note and never raises an error.
C1_SortEndsCollapsed ==
    /\ srt.pc # "threw"
    /\ srt.pc \in {"sorted", "done"} => Collapsed(srt)

SoloFlushes(st) ==
    {_sortNotesIntoFields(st.fields, <<st.notes[i]>>).flushes : i \in 1..Len(st.notes)}

IndexIn(out, e) == CHOOSE i \in 1..Len(out) : out[i] = e

\* C3: the sequence a call returns is in document order: a note stands after
\* a field exactly when its anchor compares After that field, and the index
\* resolved for a note agrees with every comparison value read for it.
C3_DocumentOrder ==
    srt.pc = "done" =>
        /\ Len(srt.out) = Len(srt.fields) + Len(srt.notes)
        /\ \A i, j \in 1..Len(srt.out) : i < j => srt.out[i].pos < srt.out[j].pos
        /\ \A n \in Range(srt.notes), f \in Range(srt.fields) :
              (IndexIn(srt.out, n) > IndexIn(srt.out, f)) <=> (compareLocationWith(n, f) = "After")
        /\ \A c \in srt.collected : (c[3] = "After") <=> (srt.noteSort[c[1]].lower > c[2])

C3_Witness ==
    /\ srt.pc = "done"
    /\ Len(srt.fields) >= 2
    /\ Len(srt.notes) = 2
    /\ srt.noteSort[1].lower = 1
    /\ srt.noteSort[2].lower = 2

\* C4: event.completed() is called exactly once per execCommand run: never
\* twice, and once by the time the finally block has passed line 87, whatever
\* the outcome of the request and of the operations.
C4_CompletedOnce ==
    /\ loop.completed <= 1
    /\ loop.pc \in {"untrack", "call", "respond", "ended"} => loop.completed = 1

C4_Witness ==
    /\ loop.pc = "ended"
    /\ loop.completed = 1
    /\ loop.threw

\* C5: when the run has ended, every proxy registered through _track has
\* been released.
C5_AllReleased == loop.pc = "ended" => gw.tracked \subseteq gw.released

\* C6: _untrackAll has finished before event.completed() is given.
C6_ReleaseBeforeCompleted == loop.completed > 0 => loop.untracked

\* C7: an operation that throws is not propagated by callFunction: the error
\* payload (error, message, stack) goes to respond like a result, and the
\* loop goes on with the command the relay answers with.
C7_ErrorRelayedStep ==
    /\ (loop.pc = "call" /\ loop'.pc # "call" /\ loop'.threw) =>
          (loop'.pc = "respond" /\ loop'.payload = ErrorPayload /\ ~loop'.propagated)
    /\ (loop.pc = "respond" /\ loop.threw /\ ~loop'.relayFailed) =>
          (loop'.pc = "call" /\ loop'.responds = loop.responds + 1)

C7_ErrorRelayed == [][C7_ErrorRelayedStep]_vars

C7_Witness ==
    /\ loop.pc = "call"
    /\ loop.threw
    /\ loop.responds >= 1

\* C8: after cursorInField or insertField returned an orphan with id A for a
\* field of the document, the next getFields returns a list with exactly one
\* Field of id A, located where the orphan is, one entry per field of the
\* document, and leaves no orphan.
C8_OrphanUnified ==
    (loop.lastOp = "getFields" /\ loop.pc = "respond") =>
        \A o \in hist.preOrph :
            /\ ~loop.threw
            /\ Cardinality({i \in 1..Len(sess.fields) : heap[sess.fields[i]].id = o[1]}) = 1
            /\ \A i \in 1..Len(sess.fields) :
                  heap[sess.fields[i]].id = o[1] => heap[sess.fields[i]].fid = o[2]
            /\ Len(sess.fields) = Cardinality(ZoteroFids(doc))
            /\ {heap[a].fid : a \in Range(sess.fields)} = ZoteroFids(doc)
            /\ sess.orphanFields = <<>>

EqualCount(o) ==
    Cardinality({f \in 1..Len(rec.comparisons[o]) : rec.comparisons[o][f] = "Equal"})

RecOrphans == 1..Len(rec.comparisons)

FirstEqual(o) ==
    CHOOSE f \in 1..Len(rec.comparisons[o]) :
        /\ rec.comparisons[o][f] = "Equal"
        /\ \A g \in 1..(f - 1) : rec.comparisons[o][g] # "Equal"

C10_SameIds ==
    (hist.n = 2 /\ ~hist.gapStruct /\ ~hist.gapExp) => hist.prev = hist.last

\* C10 amended: two successive getFields calls with only setText, setCode,
\* select, or a cursorInField that returned no Field, between them return the
\* same ordered sequence of ids.
C10_SameIdsAmended ==
    (hist.n = 2 /\ ~hist.gapStruct /\ ~hist.gapExp /\ ~hist.gapOrph) =>
        hist.prev = hist.last

C10_Witness ==
    /\ hist.n = 2
    /\ ~hist.gapStruct /\ ~hist.gapOrph /\ ~hist.gapExp
    /\ loop.lastOp = "getFields"
    /\ loop.n = 3
    /\ Len(hist.last) >= 2

\* C11: after insertField or delete has completed, the session holds no
\* cached field list, so that the next getFields rebuilds it.
C11_CacheDiscarded ==
    (loop.pc = "respond" /\ ~loop.threw /\ loop.lastOp \in {"insertField", "delete"}) =>
        ~sess.hasFields

\* C12: callFunction executes an operation only for the name of a supported
\* operation; for any other name nothing is executed and the call fails
\* with UnknownCommand.
C12_OnlySupported ==
    (loop.pc = "respond" /\ loop.lastOp \notin Supported) =>
        /\ loop.threw
        /\ loop.payload.error = "UnknownCommand"

C14_FieldsCarried ==
    (loop.pc = "call" /\ loop.n > 0 /\ wordRunArgs(Here) # {}) =>
        \A id \in relay.known :
            Usable(Here, doc, id) =>
                /\ heap[Get(sess.fieldsById, id)].px \in wordRunArgs(Here)
                /\ heap[Get(sess.fieldsById, id)].px \notin gw.released

\* C15: when an operation has failed inside a transaction with a fault of
\* the gateway (here exportDocument, whose flush fails on the range of a
\* field the document no longer holds, the list being cached and no orphan
\* pending), the session no longer holds the cached list afterwards.
C15_FaultDiscardsCache ==
    [][(/\ loop.pc = "call"
        /\ sess.hasFields
        /\ Len(sess.orphanFields) = 0
        /\ loop'.lastOp = "exportDocument"
        /\ loop'.pc = "respond"
        /\ loop'.threw) => ~sess'.hasFields]_vars

OpenTransactions ==
    LET F[s \in 0..MaxClicks] == IF s = 0 THEN 0 ELSE F[s - 1] + clicks[s].open
    IN  F[MaxClicks]

\* C16: at most one transaction is open against the document at any time:
\* a session opens its next transaction after the previous one has closed,
\* and with a relay that answers busy to execCommand while the command loop
\* of another session is running, two sessions never have transactions open
\* together.
C16_OneTransaction == OpenTransactions <= 1

C16_Witness ==
    \E s, t \in 1..MaxClicks :
        /\ clicks[s].pc = "Word.run"
        /\ clicks[s].n = 2
        /\ clicks[t].outcome = "busy"
        /\ \E u \in 1..MaxClicks : clicks[u].pc = "ended" /\ clicks[u].n > 0

\* C17: when the relay answers execCommand with 503 (busy), no operation
\* is dispatched, nothing is relayed, no alert is shown and no error is
\* logged; the run ends and the completion signal is given once.
C17_BusySilent ==
    loop.outcome = "busy" =>
        /\ loop.n = 0
        /\ loop.lastOp = "none"
        /\ ~loop.pending
        /\ loop.responds = 0
        /\ ~loop.alert
        /\ ~loop.logged
        /\ loop.pc \in {"finally", "untrack", "ended"}
        /\ loop.completed = IF loop.pc = "finally" THEN 0 ELSE 1
        /\ sess = NewSession /\ gw = NewGateway

C17_Witness == loop.outcome = "busy" /\ loop.pc = "ended" /\ loop.completed = 1

\* C18: when getFields returns a list, the field proxy of every Field in
\* it is in the session's list of tracked objects (and has not been
\* released), whether the list was rebuilt or taken from the cache.
C18_ReturnedTracked ==
    (loop.pc = "respond" /\ loop.lastOp = "getFields" /\ ~loop.threw) =>
        \A i \in 1..Len(sess.fields) :
            /\ heap[sess.fields[i]].px \in Range(sess.trackedObjects)
            /\ heap[sess.fields[i]].px \notin gw.released

\* a second getFields, answered from the cache, with two Fields
C18_Witness ==
    /\ loop.pc = "respond" /\ loop.lastOp = "getFields" /\ ~loop.threw
    /\ hist.n = 2
    /\ Len(sess.fields) = 2
    /\ heap[sess.fields[1]].px # heap[sess.fields[2]].px

\* C19: registering a proxy that is registered already changes nothing:
\* after any sequence of operations the session's list of tracked objects
\* holds no proxy more than once.
C19_TrackedOnce ==
    \A i, j \in 1..Len(sess.trackedObjects) :
        i # j => sess.trackedObjects[i] # sess.trackedObjects[j]

SameIdTwice(S) ==
    \E a, b \in Range(S.sess.fields) \cup Range(S.sess.orphanFields) :
        a # b /\ S.heap[a].id = S.heap[b].id

\* C20: after any sequence of operations of a session, and so after a
\* reconciliation of its orphans with its cached list, no two distinct
\* Fields among the cached list and the pending orphans carry the same id.
C20_UniqueIds == ~SameIdTwice(rec.S) /\ ~SameIdTwice(Here)

\* C21: within one getFields call no two distinct orphans are reconciled
\* to the same cached Field: the ids of two orphans that were pending when
\* the call began lead to two different Fields when it has returned.
C21_Injective ==
    (loop.pc = "respond" /\ loop.lastOp = "getFields" /\ ~loop.threw) =>
        \A p, q \in hist.preOrph :
            p[1] # q[1] => Get(sess.fieldsById, p[1]) # Get(sess.fieldsById, q[1])

\* C22: every Field in a list that getFields returns whose noteType is
\* footnote or endnote carries its note (wordNote is set), so that delete
\* and notesToInline can work on it.
C22_NoteCarried ==
    (loop.pc = "respond" /\ loop.lastOp = "getFields" /\ ~loop.threw) =>
        \A i \in 1..Len(sess.fields) :
            heap[sess.fields[i]].noteType # 0 => heap[sess.fields[i]].wordNote # 0

\* the fields behind the Fields of the list, in the order of the list
FidsOf(list) == [i \in 1..Len(list) |-> heap[list[i]].fid]

\* C23: the list a rebuild returns holds exactly one Field for every field
\* of the main body or of a note whose trimmed code starts with the prefix
\* and none for any other field; a note without such a field adds nothing.
C23_ExactlyPrefixed ==
    (loop.pc = "respond" /\ loop.lastOp = "getFields" /\ ~loop.threw /\ loop.n = 1) =>
        /\ Range(FidsOf(sess.fields)) = ZoteroFids(doc)
        /\ \A i, j \in 1..Len(sess.fields) :
              i # j => FidsOf(sess.fields)[i] # FidsOf(sess.fields)[j]
        /\ Len(heap) = Len(sess.fields)

\* a rebuild has returned on a document with a note that holds no field
\* with the prefix and a note that holds one with and one without it
C23_Witness ==
    /\ loop.pc = "respond" /\ loop.lastOp = "getFields" /\ ~loop.threw /\ loop.n = 1
    /\ Len(sess.fields) = 1
    /\ \E i, j \in 1..Len(doc.anchors) :
          /\ doc.anchors[i].kind # 0
          /\ \A k \in 1..Len(doc.anchors[i].flds) : ~doc.anchors[i].flds[k].zot
          /\ doc.anchors[j].kind # 0
          /\ Len(doc.anchors[j].flds) = 2
          /\ ~doc.anchors[j].flds[1].zot
          /\ doc.anchors[j].flds[2].zot

\* C24: with no notes a call of _sortNotesIntoFields queues no comparison,
\* performs no flush, raises nothing and returns the fields unchanged and
\* in the same order, for every number of fields.
C24_NoNotes ==
    Len(srt.notes) = 0 =>
        /\ srt.flushes = 0
        /\ srt.collected = {}
        /\ srt.pc # "threw"
        /\ srt.pc = "done" => srt.out = srt.fields

C24_Witness ==
    /\ srt.pc = "done"
    /\ Len(srt.notes) = 0
    /\ Len(srt.fields) = MaxN
    /\ srt.out = srt.fields

\* C25: with no fields a call of _sortNotesIntoFields queues no comparison,
\* performs no flush and returns the notes in the order they were passed,
\* for every number of notes.
C25_NoFields ==
    (Len(srt.fields) = 0 /\ srt.pc \notin {"idle", "start"}) =>
        /\ srt.pc = "done"
        /\ srt.flushes = 0
        /\ srt.collected = {}
        /\ srt.out = srt.notes

C25_Witness ==
    /\ srt.pc = "done"
    /\ Len(srt.fields) = 0
    /\ Len(srt.notes) = MaxM
    /\ srt.out = srt.notes

\* C26: after the adjacency pass of a rebuild the Field at every index
\* below the last is flagged adjacent exactly when its comparison with the
\* next Field read AdjacentBefore, the last Field is flagged not adjacent,
\* and the len-1 comparisons are all queued before the one flush.
C26_Adjacency ==
    LET fields == rec.S.sess.fields
        len    == Len(fields)
    IN  /\ rec.pc = "flush" =>
              /\ rec.flushes = 0
              /\ {i \in 1..len : rec.adjacency[i] = "queued"} = 1..(len - 1)
        /\ rec.pc \in {"tag", "done"} => rec.flushes = 1
        /\ rec.pc = "done" =>
              \A i \in 1..len :
                  rec.S.heap[fields[i]].adjacent <=>
                      (i < len /\ rec.comparisons[i] = "AdjacentBefore")

C26_Witness ==
    /\ rec.pc = "done"
    /\ Len(rec.S.sess.fields) = 3
    /\ rec.comparisons = <<"AdjacentBefore", "Before">>
    /\ rec.S.heap[rec.S.sess.fields[1]].adjacent
    /\ ~rec.S.heap[rec.S.sess.fields[2]].adjacent
    /\ ~rec.S.heap[rec.S.sess.fields[3]].adjacent

\* what each button of the dialog shown resolves displayAlert to
ButtonResults == {clickValue(dlg.shown, idx) : idx \in 0..(Len(dlg.shown) - 1)}

\* C27 as stated: displayAlert resolves to the index of the button pressed
\* among the buttons shown, and on a dismissal (window closed, Escape) to a
\* value that no button gives.
C27_IndexOrSentinel ==
    dlg.pc = "resolved" =>
        /\ dlg.user[1] = "click" => dlg.result.value = dlg.user[2]
        /\ dlg.user[1] \in {"escape", "close"} => dlg.result.value \notin ButtonResults

\* C27 amended: a press of the button with index idx among len buttons
\* resolves displayAlert to len - 1 - idx, so the first button gives the
\* highest value and the last button 0; a dismissal resolves to 0, the
\* value of the last button.
C27_ReversedIndexOrZero ==
    dlg.pc = "resolved" =>
        /\ dlg.shown = buttonMapping[dlg.buttons + 1]
        /\ dlg.user[1] = "click" =>
              dlg.result = String(Len(dlg.shown) - 1 - dlg.user[2])
        /\ dlg.user[1] = "escape" => dlg.result = String(0)
        /\ dlg.user[1] = "close" => dlg.result = Number(0)
        /\ dlg.user[1] \in {"escape", "close"} =>
              dlg.result.value = clickValue(dlg.shown, Len(dlg.shown) - 1)

C27_Witness ==
    /\ dlg.pc = "resolved"
    /\ dlg.shown = <<"Yes", "No", "Cancel">>
    /\ dlg.user = <<"click", 0>>
    /\ dlg.result = String(2)

\* C28: in every round of _sortNotesIntoFields and for every note,
\* 0 <= lower <= upper <= N, and every index at which a comparison is
\* queued lies in [0, N).
C28_IntervalInRange ==
    /\ \A i \in 1..Len(srt.noteSort) :
          /\ 0 <= srt.noteSort[i].lower
          /\ srt.noteSort[i].lower <= srt.noteSort[i].upper
          /\ srt.noteSort[i].upper <= Len(srt.fields)
    /\ \A c \in srt.collected : 0 <= c[2] /\ c[2] < Len(srt.fields)

\* C29: in each round of _sortNotesIntoFields a note whose comparison with
\* the field at mid read After gets the interval [mid+1, upper), and a
\* note whose comparison read anything else gets [lower, mid), whatever
\* the length of its interval.
C29_Narrowing ==
    [][srt.pc = "loop" =>
          \A i \in 1..Len(srt.notes) :
              (srt.compareValues[i] # NoCompare /\ srt.noteSort[i].lower < srt.noteSort[i].upper) =>
                  srt'.noteSort[i] =
                      IF srt.compareValues[i] = "After"
                      THEN [lower |-> CompIdx(srt.noteSort[i]) + 1, upper |-> srt.noteSort[i].upper]
                      ELSE [lower |-> srt.noteSort[i].lower, upper |-> CompIdx(srt.noteSort[i])]]_vars

Occurrences(out, e) == Cardinality({i \in 1..Len(out) : out[i] = e})

KeepsOrder(out, list) ==
    \A a, b \in 1..Len(list) : a < b => IndexIn(out, list[a]) < IndexIn(out, list[b])

\* C30: the merge at the end of _sortNotesIntoFields only inserts the
\* notes: the sequence returned has length N+M, holds every field and
\* every note exactly once, and keeps the fields, and the notes (also
\* those resolved to the same index), in the order they were passed in.
C30_MergeInserts ==
    srt.pc = "done" =>
        /\ Len(srt.out) = Len(srt.fields) + Len(srt.notes)
        /\ \A e \in Range(srt.fields) \cup Range(srt.notes) : Occurrences(srt.out, e) = 1
        /\ KeepsOrder(srt.out, srt.fields)
        /\ KeepsOrder(srt.out, srt.notes)

\* two notes resolved to the same index, between two fields
C30_Witness ==
    /\ srt.pc = "done"
    /\ Len(srt.fields) = 2
    /\ Len(srt.notes) = 2
    /\ srt.noteSort[1].lower = 1
    /\ srt.noteSort[2].lower = 1
    /\ srt.out = <<srt.fields[1], srt.notes[1], srt.notes[2], srt.fields[2]>>

\* C31: no registered proxy is dropped from the session's bookkeeping
\* without a release: every proxy registered through _track is in
\* trackedObjects, or in oldTrackedObjects, or has been released.
C31_NoneDropped ==
    gw.tracked \subseteq
        (Range(sess.trackedObjects) \cup Range(sess.oldTrackedObjects) \cup gw.released)

\* C32: event.completed() is given only after the command loop of the run
\* has ended: once it has been given, no operation is dispatched and no
\* result is relayed.
C32_CompletedLast ==
    [][loop.completed > 0 =>
          /\ loop'.n = loop.n
          /\ loop'.responds = loop.responds]_vars

\* the step is a delete that returned with the outcome r
DeleteGave(r) == ~r.threw /\ sess' = r.S.sess /\ heap' = r.S.heap /\ doc' = r.d

\* the list without the Fields that carry the id fieldID
WithoutId(list, fieldID) ==
    LET Keep(a) == heap[a].id # fieldID IN SelectSeq(list, Keep)

\* C33: delete(fieldID) takes out of the cached list exactly the Field
\* whose id is fieldID and leaves every other cached Field in place and in
\* order, for every id the caller knows, also the id of an orphan that has
\* not been reconciled yet.
C33_DeleteExactlyOne ==
    [][(loop.pc = "call" /\ loop'.lastOp = "delete" /\ loop'.n = loop.n + 1 /\ sess.hasFields) =>
          \A fieldID \in relay.known :
              DeleteGave(Op_delete(Here, doc, cursor, fieldID)) =>
                  sess'.fields = WithoutId(sess.fields, fieldID)]_vars

\* the Field at address a is filed in the id map under its own id and under no other key
FiledOnce(a) ==
    /\ HasKey(sess.fieldsById, heap[a].id)
    /\ Get(sess.fieldsById, heap[a].id) = a
    /\ \A p \in sess.fieldsById : p[2] = a => p[1] = heap[a].id

\* C34: after any sequence of operations every key k of fieldsById maps to a Field whose
\* id is k, and every Field of the cached list is in fieldsById under its current id and
\* under no other key
C34_IdMapExact ==
    /\ \A p \in sess.fieldsById : heap[p[2]].id = p[1]
    /\ \A i \in DOMAIN sess.fields : FiledOnce(sess.fields[i])


\* the Field that the id k resolves to stands where the Field first given as k stood
ResolvesInPlace(k) ==
    /\ HasKey(sess.fieldsById, k)
    /\ heap[Get(sess.fieldsById, k)].fid = heap[k].fid

\* C35: an id given to the caller (by insertField and cursorInField in particular) keeps
\* resolving through fieldsById to a Field at the same document position for as long as
\* the field is in the document, before the next getFields and after that getFields has
\* reconciled the orphan
C35_IdKeepsPosition ==
    \A k \in relay.known : InDoc(doc, heap[k].fid) => ResolvesInPlace(k)

\* a getFields has reconciled an orphan whose id the caller holds: the id now
\* resolves to the cached Field, which carries it
C35_Reconciled ==
    /\ loop.lastOp = "getFields"
    /\ \E k \in relay.known :
          /\ InDoc(doc, heap[k].fid)
          /\ HasKey(sess.fieldsById, k)
          /\ Get(sess.fieldsById, k) # k
          /\ heap[Get(sess.fieldsById, k)].id = k


\* C36: when the reconciliation of getFields fails because an orphan has no Equal
\* match, the session is as before the call: no Field's id, no fieldsById entry and
\* not the orphan list has changed
C36_FailedReconcileKeepsState ==
    [][(rec.pc = "start" /\ rec'.pc = "done" /\ rec'.threw) =>
          /\ rec'.S.heap = rec.S.heap
          /\ rec'.S.sess.fieldsById = rec.S.sess.fieldsById
          /\ rec'.S.sess.orphanFields = rec.S.sess.orphanFields]_vars


\* C37: whenever getFields returns, every Field of the returned list is the Field of a
\* field that the document still holds, whatever operations the session ran before
\* (exportDocument among them)
C37_ReturnedFieldsInDocument ==
    (loop.pc = "respond" /\ loop.lastOp = "getFields" /\ ~loop.threw) =>
        \A i \in DOMAIN sess.fields : InDoc(doc, heap[sess.fields[i]].fid)


\* the step is an insertText that returned
InsertTextStep ==
    loop.pc = "call" /\ loop'.lastOp = "insertText" /\ loop'.n = loop.n + 1 /\ ~loop'.threw

\* the step adds one empty note of the type noteType to the document and nothing else
NoteMade(noteType) ==
    \E i \in 1..Len(doc'.anchors) :
        /\ doc'.anchors[i].kind = noteType
        /\ doc'.anchors[i].flds = <<>>
        /\ AnchorKey(doc'.anchors[i]) \notin NoteKeys(doc)
        /\ RemoveAt(doc'.anchors, i) = doc.anchors

\* C38: insertText makes a new note exactly when an earlier delete of the session
\* removed a note and the selection is in the main body, and the note has the type of
\* the note removed last; in every other case it adds no note
C38_NoteAfterRemovedNote ==
    [][InsertTextStep =>
          IF hist.removed # 0 /\ BodyKind(doc, cursor) = 0
          THEN NoteMade(hist.removed)
          ELSE doc'.anchors = doc.anchors]_vars

\* an insertText has put back a note after a delete removed one
C38_NotePutBack ==
    /\ loop.lastOp = "insertText"
    /\ hist.removed # 0
    /\ cursor.mode = "note"
    /\ doc.anchors[cursor.g].kind = hist.removed
    /\ doc.anchors[cursor.g].flds = <<>>


\* C39: the payload relayed for the result r of an operation is the JSON text of r, and
\* the literal null only when the operation returned no value; false and 0 are relayed
\* as false and 0
C39_PayloadIsJson ==
    rec.pc = "respond" =>
        rec.payload = IF rec.result.type = "undefined" THEN <<"n", "u", "l", "l">>
                      ELSE JSON_stringify(rec.result)


\* C40: getDocumentData called after setDocumentData(d) returns exactly d, for every d
\* and whatever was stored before, in a document that does not start with the export
\* marker
C40_GetAfterSet ==
    (rec.pc = "got" /\ rec.sets > 0 /\ ~rec.exported) => rec.got = rec.data

====
